---- MODULE Spec2Model ----
(***************************************************************************)
(* NutriScoreOffline, DataBaseScraping: the Extractor (fetch.py) and the   *)
(* Loader (convert_csv_db.py) as state machines.                           *)
(*                                                                         *)
(* Text is a sequence of one-character strings.  A cell of a DataFrame is  *)
(* a record [t, s, n]: t = "null" (NaN/None), t = "str" (s is the text),   *)
(* t = "int" (n is the value) or t = "float" (n is the value in tenths).   *)
(***************************************************************************)
EXTENDS Integers, Sequences, FiniteSets, TLC

VARIABLES
    \* ---- Extractor (fetch.py)
    src,             \* the rows read_csv yields from SRC, in order
    epc,             \* "idle" (not running) or "loop" (inside the chunk loop)
    erun,            \* number of Extractor runs started so far
    pos,             \* source rows consumed by the chunk iterator in this run
    header_written,  \* fetch.py:16
    total_kept,      \* fetch.py:17
    out,             \* the lines of the file OUT
    outAtStart,      \* the lines OUT held when the current run started
    \* ---- Loader (convert_csv_db.py)
    csv,             \* the filtered CSV: [cols: set of names, rows: Seq of texts]
    lpc,             \* position of the Loader script
    lrun,            \* number of Loader runs started so far
    dirExists,       \* the directory of FRONTEND_DB_PATH exists
    conOpen,         \* con is an open connection
    schemaApplied,   \* the schema script ran on the database file
    df,              \* the DataFrame read from SRC_CSV
    df_m,            \* the mapped DataFrame
    Product,         \* the rows of table Product, oldest first
    trace,           \* the steps the current Loader run has taken, in order
    runStart,        \* [len: rows in Product when this run connected, fresh: database was new]
    prevRun          \* [done, fresh, rows]: the previous completed run's table, ids dropped

evars == <<src, epc, erun, pos, header_written, total_kept, out, outAtStart>>
lvars == <<csv, lpc, lrun, dirExists, conOpen, schemaApplied, df, df_m, Product,
           trace, runStart, prevRun>>
vars == <<evars, lvars>>

\* ------------------------------------------------------------------ bounds
MaxSrcRows == 3     \* rows in the Extractor's source
chunk_size == 2     \* fetch.py:15 sets 100_000; scaled so that several chunks occur
MaxRuns == 2        \* Extractor runs over the same OUT
MaxCsvRows == 2     \* data rows in the Loader's CSV

\* -------------------------------------------------------------------- text
UPPERS == <<"A","B","C","D","E","F","G","H","I","J","K","L","M",
            "N","O","P","Q","R","S","T","U","V","W","X","Y","Z">>
LOWERS == <<"a","b","c","d","e","f","g","h","i","j","k","l","m",
            "n","o","p","q","r","s","t","u","v","w","x","y","z">>
DIGITS == <<"0","1","2","3","4","5","6","7","8","9">>

ToLower(c) ==
    IF \E i \in 1..26 : UPPERS[i] = c
    THEN LOWERS[CHOOSE i \in 1..26 : UPPERS[i] = c]
    ELSE c

ToUpper(c) ==
    IF \E i \in 1..26 : LOWERS[i] = c
    THEN UPPERS[CHOOSE i \in 1..26 : LOWERS[i] = c]
    ELSE c

Upper(s) == [i \in 1..Len(s) |-> ToUpper(s[i])]

IsSpace(c) == c = " "

RECURSIVE LStrip(_)
LStrip(s) == IF s # <<>> /\ IsSpace(Head(s)) THEN LStrip(Tail(s)) ELSE s

RECURSIVE RStrip(_)
RStrip(s) ==
    IF s # <<>> /\ IsSpace(s[Len(s)]) THEN RStrip(SubSeq(s, 1, Len(s) - 1)) ELSE s

Strip(s) == RStrip(LStrip(s))

\* re.search of a literal pattern: a match at some offset
ContainsCS(s, pat) ==
    \E k \in 0..(Len(s) - Len(pat)) : \A j \in 1..Len(pat) : s[k + j] = pat[j]

\* the same under re.IGNORECASE
ContainsCI(s, pat) ==
    \E k \in 0..(Len(s) - Len(pat)) :
        \A j \in 1..Len(pat) : ToLower(s[k + j]) = ToLower(pat[j])

\* ------------------------------------------------------------------- cells
NULL == [t |-> "null", s |-> <<>>, n |-> 0]
Str(s) == [t |-> "str", s |-> s, n |-> 0]
IntCell(n) == [t |-> "int", s |-> <<>>, n |-> n]
FloatCell(n) == [t |-> "float", s |-> <<>>, n |-> n]
IsNull(c) == c.t = "null"

\* =============================================================== Extractor
usecols == <<"code", "product_name", "brands", "categories", "quantity",
             "nutriscore_grade", "nutriscore_score", "nova_group",
             "energy-kcal_100g", "proteins_100g", "carbohydrates_100g",
             "sugars_100g", "fat_100g", "saturated-fat_100g",
             "fiber_100g", "salt_100g", "sodium_100g", "countries_tags">>

\* the projection of the chunk loop: usecols without countries_tags
outcols == SubSeq(usecols, 1, 17)

ColSet(cols) == {cols[i] : i \in 1..Len(cols)}

PORTUGAL == <<"p","o","r","t","u","g","a","l">>
SPAIN == <<"s","p","a","i","n">>

\* Series.fillna("")
FillNa(c) == IF IsNull(c) THEN Str(<<>>) ELSE c

MaskCaseSensitive(row) ==
    LET s == FillNa(row["countries_tags"]).s
    IN  ContainsCS(s, PORTUGAL) \/ ContainsCS(s, SPAIN)

\* fillna("").str.contains("portugal|spain", case=False, regex=True)
Mask(row) ==
    LET s == FillNa(row["countries_tags"]).s
    IN  ContainsCI(s, PORTUGAL) \/ ContainsCI(s, SPAIN)

\* dropna(subset=["product_name","energy-kcal_100g"]): the row survives
NotDropped(row) ==
    /\ ~IsNull(row["product_name"])
    /\ ~IsNull(row["energy-kcal_100g"])

Project(row) == [c \in ColSet(outcols) |-> row[c]]

RECURSIVE SelectRows(_, _)
SelectRows(rows, i) ==
    IF i > Len(rows) THEN <<>>
    ELSE IF Mask(rows[i]) /\ NotDropped(rows[i])
         THEN <<Project(rows[i])>> \o SelectRows(rows, i + 1)
         ELSE SelectRows(rows, i + 1)

\* chunk.loc[mask, [...]].dropna(subset=[...])
Filtered(chunk) == SelectRows(chunk, 1)

\* the chunk the iterator yields next
NextChunk == SubSeq(src, pos + 1,
                    IF pos + chunk_size < Len(src) THEN pos + chunk_size ELSE Len(src))

\* to_csv writes a missing value as the empty field
ToCsvField(c) == IF IsNull(c) THEN <<>> ELSE c.s

HeaderLine == [hdr |-> TRUE, cols |-> outcols, cells |-> <<>>]
DataLine(row) ==
    [hdr |-> FALSE, cols |-> <<>>,
     cells |-> [i \in 1..Len(outcols) |-> ToCsvField(row[outcols[i]])]]

\* the text DataFrame.to_csv(index=False, header=h) produces
ToCsv(rows, h) ==
    (IF h THEN <<HeaderLine>> ELSE <<>>) \o [i \in 1..Len(rows) |-> DataLine(rows[i])]

HeaderAlways(hw) == TRUE

\* header=not header_written
HeaderArg(hw) == ~hw

WriteTruncating(file, text) == text

\* open(OUT, mode="a") and write
WriteAppend(file, text) == file \o text

\* ---- the rows a source may hold (dtype=str: every cell is NaN or a non-empty text)
TagValues == {NULL,
              Str(<<"P","o","r","t","u","g","a","l">>),
              Str(<<"e","n",":","s","p","a","i","n",",","f","r">>),
              Str(<<"s","p","a","i",",","f","r">>)}
\* <<product_name, energy-kcal_100g>>: both present, or one of them missing
RequiredValues == {<<Str(<<"B","r","e","a","d">>), Str(<<"2","5","0">>)>>,
                   <<NULL, Str(<<"2","5","0">>)>>,
                   <<Str(<<"B","r","e","a","d">>), NULL>>}

RawRow(tags, name, energy) ==
    [c \in ColSet(usecols) |->
        CASE c = "countries_tags" -> tags
          [] c = "product_name" -> name
          [] c = "energy-kcal_100g" -> energy
          [] c = "code" -> Str(<<"1","2","3">>)
          [] OTHER -> NULL]

RawRows == {RawRow(t, r[1], r[2]) : t \in TagValues, r \in RequiredValues}

SeqsUpTo(S, n) == UNION {[1..k -> S] : k \in 0..n}

InitExtractor ==
    /\ src \in SeqsUpTo(RawRows, MaxSrcRows)
    /\ epc = "idle"
    /\ erun = 0
    /\ pos = 0
    /\ header_written = FALSE
    /\ total_kept = 0
    /\ out = <<>>
    /\ outAtStart = <<>>

\* fetch.py:15-21: the script starts, the chunk iterator is opened
StartExtractor ==
    /\ epc = "idle"
    /\ erun < MaxRuns
    /\ erun' = erun + 1
    /\ epc' = "loop"
    /\ pos' = 0
    /\ header_written' = FALSE
    /\ total_kept' = 0
    /\ outAtStart' = out
    /\ UNCHANGED <<src, out>>

\* fetch.py:44-46: a chunk with no qualifying row
SkipChunk ==
    /\ epc = "loop"
    /\ pos < Len(src)
    /\ Filtered(NextChunk) = <<>>
    /\ pos' = pos + Len(NextChunk)
    /\ UNCHANGED <<src, epc, erun, header_written, total_kept, out, outAtStart>>

\* fetch.py:48-54: a chunk with qualifying rows
AppendChunk ==
    /\ epc = "loop"
    /\ pos < Len(src)
    /\ Filtered(NextChunk) # <<>>
    /\ out' = WriteAppend(out, ToCsv(Filtered(NextChunk), HeaderArg(header_written)))
    /\ header_written' = TRUE
    /\ total_kept' = total_kept + Len(Filtered(NextChunk))
    /\ pos' = pos + Len(NextChunk)
    /\ UNCHANGED <<src, epc, erun, outAtStart>>

\* fetch.py:56: the iterator is exhausted
FinishExtractor ==
    /\ epc = "loop"
    /\ pos = Len(src)
    /\ epc' = "idle"
    /\ UNCHANGED <<src, erun, pos, header_written, total_kept, out, outAtStart>>

\* ================================================================== Loader
\* ---- numbers as text
IsDigit(c) == \E i \in 1..10 : DIGITS[i] = c
DigitVal(c) == (CHOOSE i \in 1..10 : DIGITS[i] = c) - 1
AllDigits(s) == s # <<>> /\ \A i \in 1..Len(s) : IsDigit(s[i])

\* an integer literal; the parser skips blanks around it
IsIntText(s) == AllDigits(Strip(s))

\* a decimal literal with one fractional digit (the only decimals the inputs hold)
IsDecText(s) ==
    LET t == Strip(s)
    IN  /\ Len(t) >= 3
        /\ t[Len(t) - 1] = "."
        /\ AllDigits(SubSeq(t, 1, Len(t) - 2))
        /\ IsDigit(t[Len(t)])

IsNumText(s) == IsIntText(s) \/ IsDecText(s)

RECURSIVE ParseDigits(_)
ParseDigits(s) ==
    IF s = <<>> THEN 0
    ELSE 10 * ParseDigits(SubSeq(s, 1, Len(s) - 1)) + DigitVal(s[Len(s)])

ParseInt(s) == ParseDigits(Strip(s))

\* the value of a numeric literal, in tenths
ParseTenths(s) ==
    LET t == Strip(s)
    IN  IF IsIntText(s) THEN 10 * ParseDigits(t)
        ELSE 10 * ParseDigits(SubSeq(t, 1, Len(t) - 2)) + DigitVal(t[Len(t)])

RECURSIVE IntText(_)
IntText(n) ==
    IF n < 10 THEN <<DIGITS[n + 1]>>
    ELSE IntText(n \div 10) \o <<DIGITS[(n % 10) + 1]>>

\* str() of a float given in tenths: 12.0 -> "12.0"
FloatText(n) == IntText(n \div 10) \o <<".">> \o <<DIGITS[(n % 10) + 1]>>

\* ---- pd.read_csv(SRC_CSV, encoding="utf-8", low_memory=False)
\* texts the parser reads as NaN (those of pandas' default list the inputs can hold)
NaTexts == {<<>>, <<"n","/","a">>, <<"n","a","n">>, <<"N","A">>}

IsNaText(s) == s \in NaTexts

\* the dtype read_csv infers for a column from its texts
InferDtype(texts) ==
    LET vals == {texts[i] : i \in {j \in 1..Len(texts) : ~IsNaText(texts[j])}}
        hasNa == \E i \in 1..Len(texts) : IsNaText(texts[i])
    IN  IF texts = <<>> THEN "object"
        ELSE IF ~hasNa /\ \A v \in vals : IsIntText(v) THEN "int64"
        ELSE IF \A v \in vals : IsNumText(v) THEN "float64"
        ELSE "object"

ParseCell(dtype, s) ==
    IF IsNaText(s) THEN NULL
    ELSE IF dtype = "int64" THEN IntCell(ParseInt(s))
    ELSE IF dtype = "float64" THEN FloatCell(ParseTenths(s))
    ELSE Str(s)

ColumnTexts(file, c) == [i \in 1..Len(file.rows) |-> file.rows[i][c]]

ReadCsv(file) ==
    LET dtype == [c \in file.cols |-> InferDtype(ColumnTexts(file, c))]
    IN  [cols |-> file.cols,
         rows |-> [i \in 1..Len(file.rows) |->
                     [c \in file.cols |-> ParseCell(dtype[c], file.rows[i][c])]]]

\* ---- convert_csv_db.py:28-45
rename_map == <<
    <<"product_name", "name">>,
    <<"brands", "brand">>,
    <<"categories", "categories">>,
    <<"quantity", "quantity">>,
    <<"nutriscore_score", "nutriScoreScore">>,
    <<"nova_group", "novaGroup">>,
    <<"energy-kcal_100g", "energyKcal_100g">>,
    <<"proteins_100g", "proteins_100g">>,
    <<"carbohydrates_100g", "carbs_100g">>,
    <<"sugars_100g", "sugars_100g">>,
    <<"fat_100g", "fat_100g">>,
    <<"saturated-fat_100g", "satFat_100g">>,
    <<"fiber_100g", "fiber_100g">>,
    <<"salt_100g", "salt_100g">>,
    <<"sodium_100g", "sodium_100g">>,
    <<"countries_tags", "countries">> >>

\* [c for c in rename_map.keys() if c in df.columns]
cols_present(d) ==
    LET keys == [i \in 1..Len(rename_map) |-> rename_map[i][1]]
        Present(c) == c \in d.cols
    IN  SelectSeq(keys, Present)

Renamed(c) == rename_map[CHOOSE i \in 1..Len(rename_map) : rename_map[i][1] = c][2]
SourceOf(c) == rename_map[CHOOSE i \in 1..Len(rename_map) : rename_map[i][2] = c][1]

\* the columns of df[cols_present].rename(columns=rename_map)
MappedCols(d) == {Renamed(c) : c \in ColSet(cols_present(d))}

\* Series.astype(str) on one cell: NaN becomes the text "nan"
AsTypeStr(c) ==
    CASE c.t = "null" -> <<"n","a","n">>
      [] c.t = "int" -> IntText(c.n)
      [] c.t = "float" -> FloatText(c.n)
      [] OTHER -> c.s

\* df["code"].astype(str).str.strip()
Barcode(row) == Str(Strip(AsTypeStr(row["code"])))

\* df["product_name"].astype(str).str.strip()
NameFallback(row) == Str(Strip(AsTypeStr(row["product_name"])))

UuidCell(k) == [t |-> "uuid", s |-> <<>>, n |-> k]

valid == {"A", "B", "C", "D", "E"}

norm_grade_nostrip(x) ==
    IF IsNull(x) THEN NULL
    ELSE LET s == Upper(AsTypeStr(x))
         IN  IF s # <<>> /\ s[1] \in valid THEN Str(<<s[1]>>) ELSE NULL

\* convert_csv_db.py:57-61
norm_grade(x) ==
    IF IsNull(x) THEN NULL
    ELSE LET s == Upper(Strip(AsTypeStr(x)))
         IN  IF s # <<>> /\ s[1] \in valid THEN Str(<<s[1]>>) ELSE NULL

num_cols == <<"nutriScoreScore", "novaGroup", "energyKcal_100g", "proteins_100g",
              "carbs_100g", "sugars_100g", "fat_100g", "satFat_100g",
              "fiber_100g", "salt_100g", "sodium_100g">>

\* pd.to_numeric on one value, errors="coerce"
CoerceCell(c) ==
    CASE c.t = "str" ->
            IF IsIntText(c.s) THEN IntCell(ParseInt(c.s))
            ELSE IF IsDecText(c.s) THEN FloatCell(ParseTenths(c.s))
            ELSE NULL
      [] OTHER -> c

ToNumericKeep(cells) == cells

\* pd.to_numeric(column, errors="coerce"): int64 if every value is an integer,
\* float64 otherwise
ToNumeric(cells) ==
    LET parsed == [i \in 1..Len(cells) |-> CoerceCell(cells[i])]
        allInt == \A i \in 1..Len(parsed) : parsed[i].t = "int"
    IN  [i \in 1..Len(parsed) |->
            IF ~allInt /\ parsed[i].t = "int" THEN FloatCell(10 * parsed[i].n)
            ELSE parsed[i]]

\* convert_csv_db.py:77-78
Gate(row) ==
    /\ ~IsNull(row["barcode"]) /\ row["barcode"] # Str(<<>>)
    /\ ~IsNull(row["name"]) /\ row["name"] # Str(<<>>)

RECURSIVE KeepLastOf(_, _)
KeepLastOf(rows, i) ==
    IF i > Len(rows) THEN <<>>
    ELSE IF \E j \in (i + 1)..Len(rows) : rows[j]["barcode"] = rows[i]["barcode"]
         THEN KeepLastOf(rows, i + 1)
         ELSE <<rows[i]>> \o KeepLastOf(rows, i + 1)

DropDuplicatesLast(rows) == KeepLastOf(rows, 1)

RECURSIVE KeepLowestIdOf(_, _)
KeepLowestIdOf(rows, i) ==
    IF i > Len(rows) THEN <<>>
    ELSE IF \E j \in 1..Len(rows) : /\ rows[j]["barcode"] = rows[i]["barcode"]
                                    /\ rows[j]["id"].n < rows[i]["id"].n
         THEN KeepLowestIdOf(rows, i + 1)
         ELSE <<rows[i]>> \o KeepLowestIdOf(rows, i + 1)

DropDuplicatesById(rows) == KeepLowestIdOf(rows, 1)

RECURSIVE KeepFirstOf(_, _)
KeepFirstOf(rows, i) ==
    IF i > Len(rows) THEN <<>>
    ELSE IF \E j \in 1..(i - 1) : rows[j]["barcode"] = rows[i]["barcode"]
         THEN KeepFirstOf(rows, i + 1)
         ELSE <<rows[i]>> \o KeepFirstOf(rows, i + 1)

\* drop_duplicates(subset=["barcode"], keep="first")
DropDuplicates(rows) == KeepFirstOf(rows, 1)

product_cols == <<"id", "barcode", "name", "brand", "quantity", "countries",
                  "nutriScore", "nutriScoreScore", "novaGroup",
                  "categories", "energyKcal_100g", "proteins_100g", "carbs_100g",
                  "sugars_100g", "fat_100g", "satFat_100g", "fiber_100g",
                  "salt_100g", "sodium_100g">>

\* lines 50 and 52 index df by a column name: KeyError when it is missing
RaisesKeyError(d) ==
    \/ "code" \notin d.cols
    \/ ("name" \notin MappedCols(d) /\ "product_name" \notin d.cols)

\* the columns of df_m after line 66
AllCols(d) == MappedCols(d) \cup {"barcode", "name", "id", "nutriScore"}

\* convert_csv_db.py:47-66, one row of df_m; "index" is the row's label in the
\* frame's index (its position in df), which filtering keeps and to_sql drops
MapRow(d, i, ids) ==
    [c \in AllCols(d) \cup {"index"} |->
        CASE c = "index" -> IntCell(i)
          [] c = "barcode" -> Barcode(d.rows[i])
          [] c = "id" -> UuidCell(ids[i])
          [] c = "nutriScore" ->
                IF "nutriscore_grade" \in d.cols
                THEN norm_grade(d.rows[i]["nutriscore_grade"])
                ELSE NULL
          [] c = "name" /\ "name" \notin MappedCols(d) -> NameFallback(d.rows[i])
          [] OTHER -> d.rows[i][SourceOf(c)]]

\* convert_csv_db.py:68-75
CoerceNumCols(rows) ==
    LET present == IF rows = <<>> THEN {} ELSE ColSet(num_cols) \cap DOMAIN rows[1]
        coerced == [c \in present |-> ToNumeric([k \in 1..Len(rows) |-> rows[k][c]])]
    IN  [i \in 1..Len(rows) |->
            [c \in DOMAIN rows[i] |->
                IF c \in present THEN coerced[c][i] ELSE rows[i][c]]]

\* convert_csv_db.py:47-88: df_m as handed to to_sql
Transform(d, ids) ==
    LET mapped == [i \in 1..Len(d.rows) |-> MapRow(d, i, ids)]
        coerced == CoerceNumCols(mapped)
        gated == SelectSeq(coerced, Gate)
        InFrame(c) == c \in AllCols(d)
    IN  [cols |-> SelectSeq(product_cols, InFrame),
         rows |-> DropDuplicates(gated)]

\* uuid4 per row: distinct identifiers, unrelated to the row order
IdVectors(n, run) ==
    {v \in [1..n -> ((run - 1) * MaxCsvRows + 1)..((run - 1) * MaxCsvRows + n)] :
        \A i, j \in 1..n : i # j => v[i] # v[j]}

\* ---- the filtered CSVs considered
T_12 == <<"1","2">>
T_12sp == <<" ","1","2"," ">>
T_34 == <<"3","4">>
T_blank == <<" "," ">>
T_a == <<"a">>
T_bsp == <<" ","b"," ">>
T_sp == <<" ">>
T_empty == <<>>

KeyPairs == {<<T_12, T_a>>, <<T_12sp, T_bsp>>, <<T_empty, T_a>>,
             <<T_12, T_empty>>, <<T_blank, T_a>>, <<T_34, T_sp>>}
Extras == {<<<<" ","c">>, <<"1","2",".","5">>>>,
           <<<<"X">>, <<"a","b","c">>>>,
           <<T_empty, <<"n","/","a">>>>}

CsvRow(k, e) ==
    [c \in ColSet(outcols) |->
        CASE c = "code" -> k[1]
          [] c = "product_name" -> k[2]
          [] c = "nutriscore_grade" -> e[1]
          [] c = "nutriscore_score" -> e[2]
          [] c = "brands" -> <<"B","r">>
          [] c = "energy-kcal_100g" -> <<"2","5","0">>
          [] OTHER -> <<>>]

\* every code/name pair with one grade and score, and every grade and score
\* with two code/name pairs that share a barcode
CsvRows ==
    {CsvRow(k, <<<<" ","c">>, <<"1","2",".","5">>>>) : k \in KeyPairs}
    \cup {CsvRow(k, e) : k \in {<<T_12, T_a>>, <<T_12sp, T_bsp>>}, e \in Extras}

AbsentSets == {{}, {"nutriscore_grade"}, {"product_name"}, {"code"},
               {"nutriscore_score", "brands"}}

Restrict(row, cols) == [c \in cols |-> row[c]]

CsvFiles ==
    {[cols |-> ColSet(outcols) \ a,
      rows |-> [i \in 1..Len(rs) |-> Restrict(rs[i], ColSet(outcols) \ a)]] :
        a \in AbsentSets, rs \in SeqsUpTo(CsvRows, MaxCsvRows)}

NoFrame == [cols |-> {}, rows |-> <<>>]
NoMapped == [cols |-> <<>>, rows |-> <<>>]

InitLoader ==
    /\ csv \in CsvFiles
    /\ lpc = "start"
    /\ lrun = 1
    /\ dirExists = FALSE
    /\ conOpen = FALSE
    /\ schemaApplied = FALSE
    /\ df = NoFrame
    /\ df_m = NoMapped
    /\ Product = <<>>
    /\ trace = <<>>
    /\ runStart = [len |-> 0, fresh |-> TRUE]
    /\ prevRun = [done |-> FALSE, fresh |-> FALSE, rows |-> <<>>]

AtMakeDirs == lpc = "start"
AtReadCsv == lpc = "dirs"
AtConnectEarly == lpc \in {"start", "read"}
AtConnect == lpc = "read"
AtSchema == lpc = "connected"
AtTransform == lpc = "schema"
AtInsert == lpc = "mapped"
AtCommit == lpc = "inserted"

\* convert_csv_db.py:14
MakeDirs ==
    /\ AtMakeDirs
    /\ dirExists' = TRUE
    /\ lpc' = "dirs"
    /\ trace' = Append(trace, "makedirs")
    /\ UNCHANGED <<csv, lrun, conOpen, schemaApplied, df, df_m, Product, runStart, prevRun>>

\* convert_csv_db.py:17
ReadCsvStep ==
    /\ AtReadCsv
    /\ df' = ReadCsv(csv)
    /\ lpc' = "read"
    /\ trace' = Append(trace, "read_csv")
    /\ UNCHANGED <<csv, lrun, dirExists, conOpen, schemaApplied, df_m, Product, runStart, prevRun>>

\* convert_csv_db.py:20-21
Connect ==
    /\ AtConnect
    /\ conOpen' = TRUE
    /\ lpc' = "connected"
    /\ trace' = Append(trace, "connect")
    /\ UNCHANGED <<csv, lrun, dirExists, schemaApplied, df, df_m, Product, runStart, prevRun>>

\* convert_csv_db.py:24-25
ApplySchema ==
    /\ AtSchema
    /\ schemaApplied' = TRUE
    /\ lpc' = "schema"
    /\ trace' = Append(trace, "executescript")
    /\ UNCHANGED <<csv, lrun, dirExists, conOpen, df, df_m, Product, runStart, prevRun>>

\* convert_csv_db.py:47-88
MapColumns ==
    /\ AtTransform
    /\ ~RaisesKeyError(df)
    /\ \E ids \in IdVectors(Len(df.rows), lrun) : df_m' = Transform(df, ids)
    /\ lpc' = "mapped"
    /\ trace' = Append(trace, "map")
    /\ UNCHANGED <<csv, lrun, dirExists, conOpen, schemaApplied, df, Product, runStart, prevRun>>

\* convert_csv_db.py:50, 52: the lookup of a missing column ends the run
MapColumnsKeyError ==
    /\ AtTransform
    /\ RaisesKeyError(df)
    /\ lpc' = "aborted"
    /\ trace' = Append(trace, "KeyError")
    /\ UNCHANGED <<csv, lrun, dirExists, conOpen, schemaApplied, df, df_m, Product, runStart, prevRun>>

\* to_sql(..., index=False): the frame's columns, without its index
SqlRows(frame) ==
    [k \in 1..Len(frame.rows) |-> [c \in ColSet(frame.cols) |-> frame.rows[k][c]]]

\* convert_csv_db.py:91
Insert ==
    /\ AtInsert
    /\ Product' = Product \o SqlRows(df_m)
    /\ lpc' = "inserted"
    /\ trace' = Append(trace, "to_sql")
    /\ UNCHANGED <<csv, lrun, dirExists, conOpen, schemaApplied, df, df_m, runStart, prevRun>>

\* convert_csv_db.py:92-93
CommitClose ==
    /\ AtCommit
    /\ conOpen' = FALSE
    /\ lpc' = "done"
    /\ trace' = Append(trace, "commit")
    /\ UNCHANGED <<csv, lrun, dirExists, schemaApplied, df, df_m, Product, runStart, prevRun>>

\* an unrecoverable condition: makedirs, read_csv, connect, open/executescript
\* or to_sql raises, and the script ends there with nothing of that step done
StepRaises ==
    /\ lpc \in {"start", "dirs", "read", "connected", "mapped"}
    /\ lpc' = "aborted"
    /\ trace' = Append(trace, "raise")
    /\ UNCHANGED <<csv, lrun, dirExists, conOpen, schemaApplied, df, df_m, Product, runStart, prevRun>>

StripIds(rows) ==
    [i \in 1..Len(rows) |-> [c \in DOMAIN rows[i] \ {"id"} |-> rows[i][c]]]

\* the script is run again on the same CSV against a fresh empty destination
RunAgain ==
    /\ lpc = "done"
    /\ lrun = 1
    /\ lrun' = lrun + 1
    /\ lpc' = "start"
    /\ trace' = <<>>
    /\ prevRun' = [done |-> TRUE, fresh |-> runStart.fresh,
                   rows |-> StripIds(Product)]
    /\ Product' = <<>>
    /\ schemaApplied' = FALSE
    /\ runStart' = [len |-> 0, fresh |-> TRUE]
    /\ conOpen' = FALSE
    /\ df' = NoFrame
    /\ df_m' = NoMapped
    /\ UNCHANGED <<csv, dirExists>>

ExtractorIdle ==
    /\ src = <<>>
    /\ epc = "idle"
    /\ erun = 0
    /\ pos = 0
    /\ header_written = FALSE
    /\ total_kept = 0
    /\ out = <<>>
    /\ outAtStart = <<>>

NextLoader ==
    \/ MakeDirs /\ UNCHANGED evars
    \/ ReadCsvStep /\ UNCHANGED evars
    \/ Connect /\ UNCHANGED evars
    \/ ApplySchema /\ UNCHANGED evars
    \/ MapColumns /\ UNCHANGED evars
    \/ MapColumnsKeyError /\ UNCHANGED evars
    \/ Insert /\ UNCHANGED evars
    \/ CommitClose /\ UNCHANGED evars
    \/ StepRaises /\ UNCHANGED evars
    \/ RunAgain /\ UNCHANGED evars

LoaderInit == InitLoader /\ ExtractorIdle

SpecLoader == LoaderInit /\ [][NextLoader]_vars

LoaderIdle ==
    /\ csv = [cols |-> {}, rows |-> <<>>]
    /\ lpc = "start"
    /\ lrun = 0
    /\ dirExists = FALSE
    /\ conOpen = FALSE
    /\ schemaApplied = FALSE
    /\ df = NoFrame
    /\ df_m = NoMapped
    /\ Product = <<>>
    /\ trace = <<>>
    /\ runStart = [len |-> 0, fresh |-> TRUE]
    /\ prevRun = [done |-> FALSE, fresh |-> FALSE, rows |-> <<>>]

NextExtractor ==
    \/ StartExtractor /\ UNCHANGED lvars
    \/ SkipChunk /\ UNCHANGED lvars
    \/ AppendChunk /\ UNCHANGED lvars
    \/ FinishExtractor /\ UNCHANGED lvars

ExtractorInit == InitExtractor /\ LoaderIdle

SpecExtractor == ExtractorInit /\ [][NextExtractor]_vars

\* ------------------------------------------------- claims on the Extractor
\* the claims' reading of "qualifies", stated on the raw row
Qualifies(row) ==
    /\ ~IsNull(row["countries_tags"])
    /\ \/ ContainsCI(row["countries_tags"].s, PORTUGAL)
       \/ ContainsCI(row["countries_tags"].s, SPAIN)
    /\ ~IsNull(row["product_name"])
    /\ ~IsNull(row["energy-kcal_100g"])

RECURSIVE QualifyingLines(_, _)
QualifyingLines(rows, i) ==
    IF i > Len(rows) THEN <<>>
    ELSE (IF Qualifies(rows[i]) THEN <<DataLine(rows[i])>> ELSE <<>>)
         \o QualifyingLines(rows, i + 1)

IsDataLine(l) == ~l.hdr
IsHeaderLine(l) == l.hdr
DataOf(lines) == SelectSeq(lines, IsDataLine)
HeaderCount(lines) == Len(SelectSeq(lines, IsHeaderLine))
RunLines == SubSeq(out, Len(outAtStart) + 1, Len(out))
IsPrefix(a, b) == Len(a) <= Len(b) /\ SubSeq(b, 1, Len(a)) = a

\* C1: the data lines a run has appended are exactly, and in order, the rows
\* read so far whose countries_tags is non-null and contains "portugal" or
\* "spain" in any letter case and whose product_name and energy-kcal_100g
\* are non-null; no other row is written.
C1_FilterIff ==
    erun >= 1 => DataOf(RunLines) = QualifyingLines(SubSeq(src, 1, pos), 1)

C1_Witness ==
    /\ erun = 1 /\ epc = "loop" /\ pos = 2
    /\ Qualifies(src[1]) /\ ~ContainsCS(src[1]["countries_tags"].s, PORTUGAL)
    /\ ~ContainsCS(src[1]["countries_tags"].s, SPAIN)
    /\ Mask(src[2]) /\ IsNull(src[2]["energy-kcal_100g"])
    /\ Len(out) = 2

\* C2 (state part): from an empty output file the header is in the file
\* exactly once if some chunk read so far had a qualifying row, it is then the
\* first line and data rows follow it, and it is absent otherwise.
C2_HeaderState ==
    (erun >= 1 /\ outAtStart = <<>>) =>
        /\ HeaderCount(out) = IF \E i \in 1..pos : Qualifies(src[i]) THEN 1 ELSE 0
        /\ out # <<>> => (out[1].hdr /\ Len(out) >= 2 /\ \A i \in 2..Len(out) : ~out[i].hdr)
        /\ header_written <=> out # <<>>

\* C2 (step part): a chunk with no qualifying row leaves the output file,
\* header_written and total_kept as they were.
C2_EmptyChunkStep ==
    (/\ epc = "loop"
     /\ pos' > pos
     /\ \A i \in (pos + 1)..pos' : ~Qualifies(src[i]))
    => UNCHANGED <<out, header_written, total_kept>>

\* C2: the header is written exactly once, with the first qualifying chunk and
\* before every data row, never when no chunk qualifies; a chunk without
\* qualifying rows writes nothing and changes neither header_written nor
\* total_kept.
C2_HeaderOnce == []C2_HeaderState /\ [][C2_EmptyChunkStep]_vars

C2_Witness ==
    /\ erun = 1 /\ epc = "idle" /\ outAtStart = <<>>
    /\ Len(src) = 3
    /\ Qualifies(src[1]) /\ ~Qualifies(src[2]) /\ Qualifies(src[3])
    /\ total_kept = 2
    /\ Len(out) = 3 /\ out[1].hdr /\ ~out[3].hdr

\* C9: the file is only appended to: what it held when a run started is a
\* prefix of what it holds during and after the run; after two runs over the
\* same source every qualifying row is in the file twice.
C9_AppendOnly ==
    /\ IsPrefix(outAtStart, out)
    /\ (erun = 2 /\ epc = "idle") =>
          DataOf(out) = QualifyingLines(src, 1) \o QualifyingLines(src, 1)

C9_Witness ==
    /\ erun = 2 /\ epc = "idle"
    /\ total_kept = 2
    /\ Len(outAtStart) = 3
    /\ Len(out) = 6 /\ out[4].hdr

\* ---------------------------------------------------- claims on the Loader
\* the rows this run has put into Product, and the CSV row each came from
Inserted == SubSeq(Product, runStart.len + 1, Len(Product))
Written == lpc \in {"inserted", "done"}
SourceIndex(k) == df_m.rows[k]["index"].n
RawText(i, c) == csv.rows[i][c]

\* a raw value that is null, empty or only blanks
RawMissing(s) == IsNaText(s) \/ Strip(s) = <<>>

IsCleanText(c) == c.t = "str" /\ c.s # <<>> /\ Strip(c.s) = c.s

\* C3: every inserted row has a trimmed, non-null, non-empty barcode and name,
\* and no input row whose raw code or raw product name is null, empty or
\* blank reaches the destination.
C3_CleanKeys ==
    Written =>
        \A k \in 1..Len(Inserted) :
            /\ IsCleanText(Inserted[k]["barcode"])
            /\ IsCleanText(Inserted[k]["name"])
            /\ ~RawMissing(RawText(SourceIndex(k), "code"))
            /\ ~RawMissing(RawText(SourceIndex(k), "product_name"))

\* the frame's rows before the validity gate, as the code derives them
Derived == CoerceNumCols([i \in 1..Len(df.rows) |-> MapRow(df, i, [j \in 1..Len(df.rows) |-> 0])])
SameButId(a, b) ==
    \A c \in DOMAIN a : c \notin {"id", "index"} => a[c] = b[c]
KeyOf(D, i) == D[i]["barcode"]
InsertedWithKey(b) == {k \in 1..Len(Inserted) : Inserted[k]["barcode"] = b}
DistinctBarcodes ==
    \A k, l \in 1..Len(Inserted) :
        k # l => Inserted[k]["barcode"] # Inserted[l]["barcode"]

\* C4 as claimed: no two inserted rows share a barcode, and when several CSV
\* rows share a barcode the row inserted for it, if any, is the first of them
\* in input order.
C4_FirstOfAll ==
    Written =>
        LET D == Derived
        IN  /\ DistinctBarcodes
            /\ \A i, j \in 1..Len(df.rows) :
                  (/\ i < j
                   /\ KeyOf(D, i) = KeyOf(D, j)
                   /\ \A h \in 1..(i - 1) : KeyOf(D, h) # KeyOf(D, i)
                   /\ InsertedWithKey(KeyOf(D, i)) # {})
                  => \E k \in 1..Len(Inserted) :
                        /\ InsertedWithKey(KeyOf(D, i)) = {k}
                        /\ SourceIndex(k) = i
                        /\ SameButId(Inserted[k], D[i])

\* a row that passes the validity gate: a non-empty barcode and a present name
PassesGate(D, i) ==
    /\ D[i]["barcode"].s # <<>>
    /\ ~IsNull(D[i]["name"])

\* C4 (amended): no two inserted rows share a barcode, and of the rows that
\* pass the validity gate and share a barcode the first in input order is the
\* one inserted, all later ones being discarded.
C4_FirstOfValid ==
    Written =>
        LET D == Derived
        IN  /\ DistinctBarcodes
            /\ \A i \in 1..Len(df.rows) :
                  (/\ PassesGate(D, i)
                   /\ \A h \in 1..(i - 1) : PassesGate(D, h) => KeyOf(D, h) # KeyOf(D, i))
                  => \E k \in 1..Len(Inserted) :
                        /\ InsertedWithKey(KeyOf(D, i)) = {k}
                        /\ SourceIndex(k) = i
                        /\ SameButId(Inserted[k], D[i])
            /\ \A k \in 1..Len(Inserted) : PassesGate(D, SourceIndex(k))

C4_Witness ==
    /\ lpc = "done"
    /\ Len(df.rows) = 2
    /\ LET D == Derived
       IN  /\ PassesGate(D, 1) /\ PassesGate(D, 2)
           /\ KeyOf(D, 1) = KeyOf(D, 2)
           /\ D[1]["name"] # D[2]["name"]
           /\ Len(Inserted) = 1
           /\ Inserted[1]["name"] = D[1]["name"]

\* the grade the claim prescribes for a raw grade text
ClaimGrade(s) ==
    IF IsNaText(s) THEN NULL
    ELSE LET u == Strip(s)
         IN  IF u # <<>> /\ ToUpper(u[1]) \in valid THEN Str(<<ToUpper(u[1])>>)
             ELSE NULL

\* C5: nutriScore of an inserted row is null or one letter of A..E: null for
\* a null raw grade, else the uppercased first character of the trimmed raw
\* grade when that is in A..E, else null; null for every row when the CSV has
\* no nutriscore_grade column.
C5_NutriScore ==
    Written =>
        \A k \in 1..Len(Inserted) :
            /\ \/ IsNull(Inserted[k]["nutriScore"])
               \/ \E g \in valid : Inserted[k]["nutriScore"] = Str(<<g>>)
            /\ Inserted[k]["nutriScore"] =
                  IF "nutriscore_grade" \in csv.cols
                  THEN ClaimGrade(RawText(SourceIndex(k), "nutriscore_grade"))
                  ELSE NULL

C5_Witness ==
    /\ lpc = "done"
    /\ "nutriscore_grade" \in csv.cols
    /\ \E k \in 1..Len(Inserted) :
          /\ RawText(SourceIndex(k), "nutriscore_grade") = <<" ", "c">>
          /\ Inserted[k]["nutriScore"] = Str(<<"C">>)
    /\ \E k \in 1..Len(Inserted) :
          /\ RawText(SourceIndex(k), "nutriscore_grade") = <<"X">>
          /\ IsNull(Inserted[k]["nutriScore"])

\* C6: whichever mapped source columns the CSV lacks, the run does not fail
\* on them and the destination columns they map to are left out of the
\* inserted rows.
C6_MissingColumnsTolerated ==
    "code" \in csv.cols =>
        /\ ~(lpc = "aborted" /\ trace[Len(trace)] = "KeyError")
        /\ Written =>
              \A p \in 1..Len(rename_map) :
                  rename_map[p][1] \notin csv.cols
                  => rename_map[p][2] \notin ColSet(df_m.cols)

Before(a, b) ==
    \A j \in 1..Len(trace) : trace[j] = b => \E i \in 1..(j - 1) : trace[i] = a

\* C7: in every run the directory is ensured before the database is opened
\* and the schema script is applied before any row is written to Product; a
\* run that aborts before the schema has been applied has written no row.
C7_Order ==
    /\ Before("makedirs", "connect")
    /\ Before("executescript", "to_sql")
    /\ conOpen => dirExists
    /\ Len(Product) > runStart.len => schemaApplied
    /\ (lpc = "aborted" /\ \A j \in 1..Len(trace) : trace[j] # "map")
          => Len(Product) = runStart.len

C7_Witness ==
    /\ lpc = "done"
    /\ Len(Inserted) = 2
    /\ trace = <<"makedirs", "read_csv", "connect", "executescript", "map",
                 "to_sql", "commit">>

IsNumeric(c) == c.t \in {"int", "float"}
NumValueTenths(c) == IF c.t = "int" THEN 10 * c.n ELSE c.n

\* the CSV with every numeric source column emptied
NumSources == {SourceOf(c) : c \in ColSet(num_cols)}
WithoutNumbers ==
    [cols |-> csv.cols,
     rows |-> [i \in 1..Len(csv.rows) |->
                 [c \in csv.cols |-> IF c \in NumSources THEN <<>> ELSE csv.rows[i][c]]]]
IndexOf(frame) == [k \in 1..Len(frame.rows) |-> frame.rows[k]["index"].n]

\* C8: every inserted value of a numeric column is a number or null; a raw
\* value that is not a number becomes null and a raw number keeps its value;
\* the rows inserted are the same whatever the numeric columns hold.
C8_NumericCoercion ==
    Written =>
        /\ \A k \in 1..Len(Inserted) :
              \A c \in ColSet(num_cols) \cap ColSet(df_m.cols) :
                  LET raw == RawText(SourceIndex(k), SourceOf(c))
                  IN  /\ IsNull(Inserted[k][c]) \/ IsNumeric(Inserted[k][c])
                      /\ IsNull(Inserted[k][c]) <=> ~IsNumText(raw)
                      /\ IsNumText(raw) => NumValueTenths(Inserted[k][c]) = ParseTenths(raw)
        /\ IndexOf(df_m) =
              IndexOf(Transform(ReadCsv(WithoutNumbers), [j \in 1..Len(csv.rows) |-> j]))

C8_Witness ==
    /\ lpc = "done"
    /\ "nutriscore_score" \in csv.cols
    /\ \E k \in 1..Len(Inserted) :
          /\ RawText(SourceIndex(k), "nutriscore_score") = <<"a", "b", "c">>
          /\ IsNull(Inserted[k]["nutriScoreScore"])
    /\ \E k \in 1..Len(Inserted) :
          /\ RawText(SourceIndex(k), "nutriscore_score") = <<"1", "2", ".", "5">>
          /\ Inserted[k]["nutriScoreScore"] = FloatCell(125)

\* C10: two runs on the same CSV, each on a fresh empty destination, leave
\* Product tables with the same rows in the same order, the id apart.
C10_Idempotent ==
    (lrun = 2 /\ lpc = "done" /\ prevRun.done /\ prevRun.fresh /\ runStart.fresh)
        => StripIds(Product) = prevRun.rows

C10_Witness ==
    /\ lrun = 2 /\ lpc = "done" /\ prevRun.done /\ prevRun.fresh /\ runStart.fresh
    /\ Len(csv.rows) = 2
    /\ Len(Product) = 2
    /\ Product[1]["id"].n > Product[2]["id"].n
    /\ Len(prevRun.rows) = 2

====
